---- MODULE Spec2Model ----
(***************************************************************************)
(* A model of the timeline visual of src/visual.ts: the Visual class (its   *)
(* constructor, update, basicTimeline with the three pointer handlers, and  *)
(* transformData) and the helpers formatDate and formatStringDisplay.       *)
(*                                                                          *)
(* Strings are TLA+ strings; Len, SubSeq and \o act on them as length,      *)
(* substring and + act on the strings of the source.  Column indices are    *)
(* the 0-based indices of the source; sequences of the model are 1-based,   *)
(* so the cell of index i of a row is row[i + 1].                           *)
(*                                                                          *)
(* Where a loop of the source carries a value from one round to the next,   *)
(* the model writes CHOOSE out \in {F(v) : v \in {e}} : TRUE for F(e): it    *)
(* is the same value, with e computed once.                                 *)
(***************************************************************************)
EXTENDS Integers, Sequences, FiniteSets, TLC

VARIABLES
    options,       \* the argument of the latest update call: [table, viewport]
    outcome,       \* how the latest update call ended: "none", "returned", "threw"
    data,          \* this.data
    colorScale,    \* this.colorScale: the domain the ordinal scale has interned
    symbolScale,   \* this.symbolScale: likewise
    target,        \* the children of this.target, in document order
    colorLog,      \* every <<label, color>> pair the colour lookup has put in a Record
    pointer,       \* the child of the svg element the pointer is on; 0 on no marker
    arg,           \* the argument of a helper called on its own
    ret,           \* what that call returned
    called         \* whether that call has been made

vars == <<options, outcome, data, colorScale, symbolScale, target, colorLog, pointer,
          arg, ret, called>>

visualVars == <<options, outcome, data, colorScale, symbolScale, target, colorLog, pointer>>

helperVars == <<arg, ret, called>>

----------------------------------------------------------------------------
(* Bounds of the model                                                      *)

MaxRows == 2

MaxCols == 2

MaxLen == 11

----------------------------------------------------------------------------
(* Values of the language and of the libraries                              *)

\* What a column role holds before a column claims it (idColumns' initial null).
null == -1

\* The value undefined: an index outside an array, an ordinal scale without range.
Undefined == "<undefined>"

\* Not-a-number, as a fraction without denominator.
NaN == [num |-> 0, den |-> 0]

Frac(n, d) == [num |-> n, den |-> d]

Roles == {"Date", "Event", "Description", "Color", "Symbol"}

Digits == {"0", "1", "2", "3", "4", "5", "6", "7", "8", "9"}

DigitValue(c) ==
    CASE c = "0" -> 0 [] c = "1" -> 1 [] c = "2" -> 2 [] c = "3" -> 3
      [] c = "4" -> 4 [] c = "5" -> 5 [] c = "6" -> 6 [] c = "7" -> 7
      [] c = "8" -> 8 [] c = "9" -> 9

CharAt(s, i) == SubSeq(s, i, i)

\* The number written by the digits of s from position a to position b.
RECURSIVE NumberAt(_, _, _)
NumberAt(s, a, b) ==
    IF b < a THEN 0
    ELSE 10 * NumberAt(s, a, b - 1) + DigitValue(CharAt(s, b))

\* Whether new Date(s) is a valid date: the model reads the date-only ISO form
\* YYYY-MM-DD, and takes every other string as unparseable.
IsIsoDate(s) ==
    /\ Len(s) = 10
    /\ CharAt(s, 5) = "-"
    /\ CharAt(s, 8) = "-"
    /\ \A i \in {1, 2, 3, 4, 6, 7, 9, 10} : CharAt(s, i) \in Digits
    /\ NumberAt(s, 6, 7) \in 1..12
    /\ NumberAt(s, 9, 10) \in 1..31

\* The day number of a civil date (days since 1970-01-01), the time value of
\* new Date(s) in days.
DaysFromCivil(y, m, d) ==
    LET yy  == IF m <= 2 THEN y - 1 ELSE y
        era == yy \div 400
        yoe == yy - era * 400
        mp  == IF m > 2 THEN m - 3 ELSE m + 9
        doy == (153 * mp + 2) \div 5 + d - 1
        doe == yoe * 365 + yoe \div 4 - yoe \div 100 + doy
    IN  era * 146097 + doe - 719468

\* new Date(s), as a day number, or NaN for an invalid date.
NewDate(s) ==
    IF IsIsoDate(s)
    THEN Frac(DaysFromCivil(NumberAt(s, 1, 4), NumberAt(s, 6, 7), NumberAt(s, 9, 10)), 1)
    ELSE NaN

----------------------------------------------------------------------------
(* formatDate and formatStringDisplay                                       *)

\* formatDate: day, month and year of new Date(isoDate), the first two padded
\* to two digits; an invalid date gives NaN for each of the three.  The
\* local calendar date is taken to be the UTC one (a host clock at or east
\* of UTC).
formatDate(isoDate) ==
    IF IsIsoDate(isoDate)
    THEN SubSeq(isoDate, 9, 10) \o "/" \o SubSeq(isoDate, 6, 7) \o "/" \o SubSeq(isoDate, 1, 4)
    ELSE "NaN/NaN/NaN"

\* A truncation that keeps 8 characters in front of the ellipsis.
formatStringDisplayKeep8(input) ==
    IF Len(input) <= 10
    THEN input
    ELSE SubSeq(input, 1, 8) \o "..."

formatStringDisplay(input) ==
    IF Len(input) <= 10
    THEN input
    ELSE SubSeq(input, 1, 7) \o "..."

----------------------------------------------------------------------------
(* d3.scaleOrdinal: the scale interns each label it has not seen at the end *)
(* of its domain and answers with the range value of the label's index,     *)
(* modulo the length of the range.                                          *)

\* The range of d3.scaleOrdinal() called without arguments.
ScaleRange == <<>>

\* The 0-based index of d in domain; Len(domain) when d is not in it.
IndexOf(domain, d) ==
    IF \E i \in 1..Len(domain) : domain[i] = d
    THEN (CHOOSE i \in 1..Len(domain) : domain[i] = d) - 1
    ELSE Len(domain)

\* range[i % range.length]: undefined for the empty range.
RangeValue(range, i) ==
    IF Len(range) = 0 THEN Undefined ELSE range[(i % Len(range)) + 1]

\* A scale that answers a label it has not seen with the neutral value while
\* it interns it.
ScaleCallNeutralFirst(domain, d) ==
    LET i == IndexOf(domain, d)
    IN  [domain |-> IF i = Len(domain) THEN Append(domain, d) ELSE domain,
         value  |-> IF i = Len(domain) THEN "#000000" ELSE RangeValue(ScaleRange, i)]

\* scale(d): the domain after the call and the value returned.
ScaleCall(domain, d) ==
    LET i == IndexOf(domain, d)
    IN  [domain |-> IF i = Len(domain) THEN Append(domain, d) ELSE domain,
         value  |-> RangeValue(ScaleRange, i)]

----------------------------------------------------------------------------
(* transformData                                                            *)

\* A column is the set of the roles its flags name.
idColumnsInit == [r \in Roles |-> null]

\* A scan in which the first column carrying a role keeps it.
RECURSIVE ColumnScanFirstWins(_, _, _)
ColumnScanFirstWins(columns, i, idColumns) ==
    IF i >= Len(columns) THEN idColumns
    ELSE CHOOSE out \in
            {ColumnScanFirstWins(columns, i + 1, next) : next \in
                {[r \in Roles |->
                    IF r \in columns[i + 1] /\ idColumns[r] = null THEN i ELSE idColumns[r]]}} :
            TRUE

\* table.columns.forEach from column i on: every role of column i is set to i.
RECURSIVE ColumnScan(_, _, _)
ColumnScan(columns, i, idColumns) ==
    IF i >= Len(columns) THEN idColumns
    ELSE CHOOSE out \in
            {ColumnScan(columns, i + 1, next) : next \in
                {[r \in Roles |-> IF r \in columns[i + 1] THEN i ELSE idColumns[r]]}} :
            TRUE

\* row[i]: undefined when i is null or no index of the row.
CellAt(row, i) ==
    IF i # null /\ i + 1 \in 1..Len(row) THEN row[i + 1] ELSE Undefined

\* Whether the five toString calls at the head of the row callback throw: one
\* of them is made on undefined.
RowThrows(row, idColumns) ==
    \E r \in Roles : CellAt(row, idColumns[r]) = Undefined

\* The row callback on a row whose toString calls do not throw: the Record it
\* pushes and the two scales after its lookups.
RowItem(row, idColumns, cs, ss) ==
    LET date   == CellAt(row, idColumns["Date"])
        event  == CellAt(row, idColumns["Event"])
        color  == IF idColumns["Color"] # null
                  THEN ScaleCall(cs, CellAt(row, idColumns["Color"]))
                  ELSE [domain |-> cs, value |-> "#000000"]
        symbol == IF idColumns["Symbol"] # null
                  THEN ScaleCall(ss, CellAt(row, idColumns["Symbol"]))
                  ELSE [domain |-> ss, value |-> "circle"]
    IN  [item |-> [date            |-> IF idColumns["Date"] # null THEN date ELSE "",
                   dateDisplay     |-> formatDate(date),
                   event           |-> IF idColumns["Event"] # null THEN event ELSE "",
                   eventDisplay    |-> IF idColumns["Event"] # null
                                       THEN formatStringDisplay(event) ELSE "",
                   description     |-> CellAt(row, idColumns["Description"]),
                   color           |-> color.value,
                   colorAttribute  |-> CellAt(row, idColumns["Color"]),
                   symbol          |-> symbol.value,
                   symbolAttribute |-> CellAt(row, idColumns["Symbol"])],
         colorScale  |-> color.domain,
         symbolScale |-> symbol.domain]

\* A row loop that pushes no Record for a row equal to the row before it.
RECURSIVE RowLoopSkipRepeat(_, _, _, _)
RowLoopSkipRepeat(rows, k, idColumns, acc) ==
    IF k > Len(rows) \/ acc.threw THEN acc
    ELSE IF RowThrows(rows[k], idColumns)
         THEN [acc EXCEPT !.threw = TRUE]
         ELSE IF k > 1 /\ rows[k] = rows[k - 1]
              THEN RowLoopSkipRepeat(rows, k + 1, idColumns, acc)
              ELSE CHOOSE out \in
                      {RowLoopSkipRepeat(rows, k + 1, idColumns, next) : next \in
                          {[threw       |-> FALSE,
                            data        |-> Append(acc.data, step.item),
                            colorScale  |-> step.colorScale,
                            symbolScale |-> step.symbolScale] : step \in
                              {RowItem(rows[k], idColumns, acc.colorScale, acc.symbolScale)}}} :
                      TRUE

\* rows.forEach from row k on; the loop ends at the first row that throws.
RECURSIVE RowLoop(_, _, _, _)
RowLoop(rows, k, idColumns, acc) ==
    IF k > Len(rows) \/ acc.threw THEN acc
    ELSE IF RowThrows(rows[k], idColumns)
         THEN [acc EXCEPT !.threw = TRUE]
         ELSE CHOOSE out \in
                 {RowLoop(rows, k + 1, idColumns, next) : next \in
                     {[threw       |-> FALSE,
                       data        |-> Append(acc.data, step.item),
                       colorScale  |-> step.colorScale,
                       symbolScale |-> step.symbolScale] : step \in
                         {RowItem(rows[k], idColumns, acc.colorScale, acc.symbolScale)}}} :
                 TRUE

\* transformData(table) with the scales as they are at the call: whether it
\* threw, the local array data, and the scales after it.
transformData(table, cs, ss) ==
    CHOOSE out \in
        {RowLoop(table.rows, 1, idColumns, acc) :
            idColumns \in {ColumnScan(table.columns, 0, idColumnsInit)},
            acc \in {[threw |-> FALSE, data |-> <<>>, colorScale |-> cs, symbolScale |-> ss]}} :
        TRUE

----------------------------------------------------------------------------
(* update and basicTimeline: what they draw under this.target               *)

RestRadius == 5

HoverRadius == 8

RestStrokeWidth == 2

HoverStrokeWidth == 3

Margin == 50

TooltipOffset == 15

\* The attributes of a marker the two transitions animate.
Resting == [r |-> RestRadius, stroke |-> "#000", strokeWidth |-> RestStrokeWidth]

Hovered == [r |-> HoverRadius, stroke |-> "red", strokeWidth |-> HoverStrokeWidth]

\* d3.min and d3.max of the Records' dates: invalid dates are passed over, and
\* without a valid date the result is undefined, which the scale's domain
\* turns into NaN.
ValidDays(records) ==
    {NewDate(records[i].date).num : i \in {j \in 1..Len(records) : IsIsoDate(records[j].date)}}

MinDate(records) ==
    CHOOSE out \in
        {IF days = {} THEN NaN ELSE Frac(CHOOSE d \in days : \A e \in days : d <= e, 1) :
            days \in {ValidDays(records)}} :
        TRUE

MaxDate(records) ==
    CHOOSE out \in
        {IF days = {} THEN NaN ELSE Frac(CHOOSE d \in days : \A e \in days : d >= e, 1) :
            days \in {ValidDays(records)}} :
        TRUE

\* timeScale(x) for the domain [lo, hi] and the range [Margin, width - Margin],
\* as an exact fraction.  A domain of one point maps every date to the middle
\* of the range; an invalid date has no position (NaN stands for it).
TimeScale(lo, hi, width, x) ==
    IF x = NaN \/ lo = NaN \/ hi = NaN THEN NaN
    ELSE IF hi.num = lo.num THEN Frac(Margin + (width - Margin), 2)
    ELSE Frac(Margin * (hi.num - lo.num) + (x.num - lo.num) * ((width - Margin) - Margin),
              hi.num - lo.num)

\* A grouping that gives every Record a group of its own.
GroupEach(records, i, groups) ==
    [k \in 1..Len(records) |-> [date |-> records[k].date, events |-> <<k>>]]

\* d3.group(this.data, d => d.date) from Record i on: the groups in the order
\* their dates are first met, each with the indices of its Records in order.
RECURSIVE Group(_, _, _)
Group(records, i, groups) ==
    IF i > Len(records) THEN groups
    ELSE IF \E k \in 1..Len(groups) : groups[k].date = records[i].date
         THEN CHOOSE out \in
                 {Group(records, i + 1, next) : next \in
                     {[groups EXCEPT ![k].events = Append(@, i)] : k \in
                         {n \in 1..Len(groups) : groups[n].date = records[i].date}}} : TRUE
         ELSE CHOOSE out \in
                 {Group(records, i + 1, next) : next \in
                     {Append(groups, [date |-> records[i].date, events |-> <<i>>])}} : TRUE

\* The tooltip text of one Record.
TooltipEntry(e) ==
    "<b>Date:</b> " \o e.dateDisplay \o "<br/><b>Event:</b> " \o e.eventDisplay
        \o "<br/><b>Description:</b> " \o e.description

\* events.map(...).join("<br/><br/>") for the Records of the indices events.
RECURSIVE TooltipHtml(_, _)
TooltipHtml(records, events) ==
    IF Len(events) = 0 THEN ""
    ELSE IF Len(events) = 1 THEN TooltipEntry(records[events[1]])
    ELSE TooltipEntry(records[events[1]]) \o "<br/><br/>" \o TooltipHtml(records, Tail(events))

\* The svg element update appends, before its children are appended.
Svg(viewport) ==
    [tag |-> "svg", width |-> viewport.width, height |-> viewport.height, children |-> <<>>]

\* A baseline drawn at the full height instead of the middle.
BaselineAtBottom(viewport) ==
    [tag |-> "line", x1 |-> Margin, x2 |-> viewport.width - Margin,
     y1 |-> Frac(viewport.height, 1), y2 |-> Frac(viewport.height, 1),
     stroke |-> "#000", strokeWidth |-> 2]

\* The line element: from Margin to width - Margin at timelineY = height / 2.
Baseline(viewport) ==
    [tag |-> "line", x1 |-> Margin, x2 |-> viewport.width - Margin,
     y1 |-> Frac(viewport.height, 2), y2 |-> Frac(viewport.height, 2),
     stroke |-> "#000", strokeWidth |-> 2]

\* The div element basicTimeline appends for the tooltip.
Tooltip ==
    [tag |-> "div", html |-> "",
     style |-> [position |-> "absolute", visibility |-> "hidden",
                backgroundColor |-> "white", border |-> "1px solid black",
                padding |-> "8px", borderRadius |-> "5px", fontSize |-> "12px",
                top |-> "", left |-> ""]]

\* The g element of one group with its circle.  date is the group's key and
\* events what the circle's handlers close over; goal holds the end values of the transition last
\* started on the circle (the circle's own values until one is started).
Marker(lo, hi, viewport, group) ==
    [tag |-> "g",
     date |-> group.date,
     circle |-> [cx |-> TimeScale(lo, hi, viewport.width, NewDate(group.date)),
                 cy |-> Frac(viewport.height, 2),
                 r |-> Resting.r, fill |-> "#000",
                 stroke |-> Resting.stroke, strokeWidth |-> Resting.strokeWidth],
     goal |-> Resting,
     events |-> group.events]

\* groupedData.forEach: one g element per group, in the order of the groups.
Markers(records, viewport) ==
    CHOOSE out \in
        {[k \in 1..Len(groups) |-> Marker(lo, hi, viewport, groups[k])] :
            groups \in {Group(records, 1, <<>>)},
            lo \in {MinDate(records)},
            hi \in {MaxDate(records)}} :
        TRUE

\* A redraw that appends to what is under the target instead of replacing it.
DrawKeepingOld(old, records, viewport) ==
    old \o <<[Svg(viewport) EXCEPT !.children = <<Baseline(viewport)>> \o Markers(records, viewport)],
             Tooltip>>

\* The children of the target after update has removed what was there and
\* has drawn the Records: the svg element, then the tooltip.
Draw(old, records, viewport) ==
    <<[Svg(viewport) EXCEPT !.children = <<Baseline(viewport)>> \o Markers(records, viewport)],
      Tooltip>>

----------------------------------------------------------------------------
(* The inputs of the model                                                  *)

\* The rows a table is made of: cells for the date, the event, the
\* description, the colour label and the symbol label.
RowChoices ==
    { <<"2024-01-01", "Short", "Kickoff", "A", "x">>,
      <<"2024-03-05", "HelloWorldExample", "Review", "B", "y">> }

RECURSIVE SeqsUpTo(_, _)
SeqsUpTo(S, n) ==
    IF n = 0 THEN {<<>>}
    ELSE SeqsUpTo(S, n - 1) \cup
         {Append(q, x) : q \in {p \in SeqsUpTo(S, n - 1) : Len(p) = n - 1}, x \in S}

\* One column per role.
Canonical == <<{"Date"}, {"Event"}, {"Description"}, {"Color"}, {"Symbol"}>>

\* The same columns with the Symbol role on none of them.
NoSymbol == <<{"Date"}, {"Event"}, {"Description"}, {"Color"}, {}>>

\* Tables whose columns carry all five roles, and tables of one row or none
\* whose columns leave the Symbol role out.
Tables ==
    {[columns |-> Canonical, rows |-> rows] : rows \in SeqsUpTo(RowChoices, MaxRows)}
    \cup {[columns |-> NoSymbol, rows |-> rows] : rows \in SeqsUpTo(RowChoices, 1)}

Viewports == {[width |-> 200, height |-> 100], [width |-> 301, height |-> 151]}

PagePoints == {[pageX |-> 10, pageY |-> 20]}

NoOptions == [table |-> [columns |-> <<>>, rows |-> <<>>], viewport |-> [width |-> 0, height |-> 0]]

----------------------------------------------------------------------------
(* The visual as a state machine                                            *)

\* The Visual after its constructor, before any update.
VisualInit ==
    /\ options = NoOptions
    /\ outcome = "none"
    /\ data = <<>>
    /\ colorScale = <<>>
    /\ symbolScale = <<>>
    /\ target = <<>>
    /\ colorLog = {}
    /\ pointer = 0

Init ==
    /\ VisualInit
    /\ arg = ""
    /\ ret = ""
    /\ called = FALSE

\* update(options): transformData runs first, and when it throws the call
\* ends there, with this.data and the target as they were; the scales keep
\* what the rows before the throw have interned.  The markers of a new
\* drawing are new elements, which the pointer has not entered.
Update(table, viewport) ==
    \E r \in {transformData(table, colorScale, symbolScale)} :
        /\ options' = [table |-> table, viewport |-> viewport]
        /\ colorScale' = r.colorScale
        /\ symbolScale' = r.symbolScale
        /\ colorLog' = colorLog \cup
                       {<<r.data[i].colorAttribute, r.data[i].color>> : i \in 1..Len(r.data)}
        /\ IF r.threw
           THEN /\ outcome' = "threw"
                /\ UNCHANGED <<data, target, pointer>>
           ELSE /\ outcome' = "returned"
                /\ data' = r.data
                /\ target' = Draw(target, r.data, viewport)
                /\ pointer' = 0
        /\ UNCHANGED helperVars

\* The indices, among the children of the svg element, of the markers.
MarkerIndices ==
    IF target = <<>> THEN {}
    ELSE {k \in 1..Len(target[1].children) : target[1].children[k].tag = "g"}

\* The pointer is on one marker at a time: it enters a marker from outside
\* the markers, moves on the marker it is on, and leaves that marker.

\* The mouseover handler of marker k: a transition to the hovered values is
\* started, and the tooltip gets the text of the marker's Records and is shown.
MouseOver(k) ==
    /\ pointer = 0
    /\ pointer' = k
    /\ target' = [target EXCEPT
                    ![1].children[k].goal = Hovered,
                    ![2].html = TooltipHtml(data, target[1].children[k].events),
                    ![2].style.visibility = "visible"]
    /\ UNCHANGED <<options, outcome, data, colorScale, symbolScale, colorLog>>
    /\ UNCHANGED helperVars

\* The mousemove handler of marker k for a pointer at p.
MouseMove(k, p) ==
    /\ pointer = k
    /\ target' = [target EXCEPT
                    ![2].style.top = ToString(p.pageY + TooltipOffset) \o "px",
                    ![2].style.left = ToString(p.pageX + TooltipOffset) \o "px"]
    /\ UNCHANGED <<options, outcome, data, colorScale, symbolScale, colorLog, pointer>>
    /\ UNCHANGED helperVars

\* A mouseout handler that leaves the tooltip as it is.
MouseOutKeepsTooltip(k) ==
    /\ pointer = k
    /\ pointer' = 0
    /\ target' = [target EXCEPT ![1].children[k].goal = Resting]
    /\ UNCHANGED <<options, outcome, data, colorScale, symbolScale, colorLog>>
    /\ UNCHANGED helperVars

\* The mouseout handler of marker k: a transition to the resting values is
\* started, and the tooltip is hidden.
MouseOut(k) ==
    /\ pointer = k
    /\ pointer' = 0
    /\ target' = [target EXCEPT
                    ![1].children[k].goal = Resting,
                    ![2].style.visibility = "hidden"]
    /\ UNCHANGED <<options, outcome, data, colorScale, symbolScale, colorLog>>
    /\ UNCHANGED helperVars

\* The transition last started on marker k reaches its end: the circle has
\* the transition's end values.
TransitionEnd(k) ==
    /\ LET m == target[1].children[k]
       IN  /\ [r |-> m.circle.r, stroke |-> m.circle.stroke,
               strokeWidth |-> m.circle.strokeWidth] # m.goal
           /\ target' = [target EXCEPT
                           ![1].children[k].circle.r = m.goal.r,
                           ![1].children[k].circle.stroke = m.goal.stroke,
                           ![1].children[k].circle.strokeWidth = m.goal.strokeWidth]
    /\ UNCHANGED <<options, outcome, data, colorScale, symbolScale, colorLog, pointer>>
    /\ UNCHANGED helperVars

Next ==
    \/ \E table \in Tables, viewport \in Viewports : Update(table, viewport)
    \/ \E k \in MarkerIndices : MouseOver(k)
    \/ \E k \in MarkerIndices, p \in PagePoints : MouseMove(k, p)
    \/ \E k \in MarkerIndices : MouseOut(k)
    \/ \E k \in MarkerIndices : TransitionEnd(k)

Spec == Init /\ [][Next]_vars

----------------------------------------------------------------------------
(* The helpers called on their own                                          *)

RECURSIVE StringsOver(_, _)
StringsOver(alphabet, n) ==
    IF n = 0 THEN {""}
    ELSE {s \o c : s \in StringsOver(alphabet, n - 1), c \in alphabet}

\* Event strings of every length up to maxLen, and the two strings of the
\* truncation example.
EventStrings(maxLen) ==
    UNION {StringsOver({"a", "b"}, n) : n \in 0..maxLen} \cup {"Short", "HelloWorldExample"}

InitFormat ==
    /\ VisualInit
    /\ arg \in EventStrings(MaxLen)
    /\ ret = ""
    /\ called = FALSE

CallFormatStringDisplay ==
    /\ ~called
    /\ ret' = formatStringDisplay(arg)
    /\ called' = TRUE
    /\ UNCHANGED <<arg, visualVars>>

FormatSpec == InitFormat /\ [][CallFormatStringDisplay]_vars

\* Column sequences of up to maxCols columns with any role flags.
ColumnSeqs(maxCols) == UNION {[1..n -> SUBSET Roles] : n \in 0..maxCols}

InitScan ==
    /\ VisualInit
    /\ arg \in ColumnSeqs(MaxCols)
    /\ ret = idColumnsInit
    /\ called = FALSE

\* The column scan of transformData on the columns arg.
CallColumnScan ==
    /\ ~called
    /\ ret' = ColumnScan(arg, 0, idColumnsInit)
    /\ called' = TRUE
    /\ UNCHANGED <<arg, visualVars>>

ScanSpec == InitScan /\ [][CallColumnScan]_vars

\* The role flags of the columns of the tables transformData is called on.
ColumnKinds == {{}, {"Date", "Event"}, {"Description", "Color", "Symbol"}, Roles}

MapperCells == {"2024-01-01", "HelloWorldExample"}

\* Tables of one to maxCols columns and up to maxRows rows, each row with one
\* cell per column.
MapperTables(maxCols, maxRows) ==
    UNION {{[columns |-> c, rows |-> r] :
               c \in [1..n -> ColumnKinds],
               r \in UNION {[1..m -> [1..n -> MapperCells]] : m \in 0..maxRows}} :
           n \in 1..maxCols}

InitMapper ==
    /\ VisualInit
    /\ arg \in MapperTables(MaxCols, MaxRows)
    /\ ret = [threw |-> FALSE, data |-> <<>>, colorScale |-> <<>>, symbolScale |-> <<>>]
    /\ called = FALSE

\* transformData(arg) on a new Visual; the lookups leave their labels in the
\* two scales.
CallTransformData ==
    /\ ~called
    /\ ret' = transformData(arg, colorScale, symbolScale)
    /\ colorScale' = ret'.colorScale
    /\ symbolScale' = ret'.symbolScale
    /\ called' = TRUE
    /\ UNCHANGED <<arg, options, outcome, data, target, colorLog, pointer>>

MapperSpec == InitMapper /\ [][CallTransformData]_vars

----------------------------------------------------------------------------
(* Properties                                                               *)

\* The roles no column of columns carries.
Unresolved(columns) ==
    {r \in Roles : \A i \in 1..Len(columns) : r \notin columns[i]}

\* The 0-based index of the last column of columns that carries role r.
LastColumn(columns, r) ==
    CHOOSE i \in 0..(Len(columns) - 1) :
        /\ r \in columns[i + 1]
        /\ \A j \in 0..(Len(columns) - 1) : r \in columns[j + 1] => j <= i

\* C1: transformData on a table whose columns carry all five roles returns
\* as many Records as the table has rows, and the i-th Record holds the cells
\* of the i-th row (for each role, the cell of the last column carrying it)
\* with the two display strings derived from them.
RecordPerRowInOrder ==
    (called /\ Unresolved(arg.columns) = {}) =>
        /\ ~ret.threw
        /\ Len(ret.data) = Len(arg.rows)
        /\ \A i \in 1..Len(arg.rows) :
              LET cell(r) == arg.rows[i][LastColumn(arg.columns, r) + 1]
              IN  /\ ret.data[i].date = cell("Date")
                  /\ ret.data[i].event = cell("Event")
                  /\ ret.data[i].description = cell("Description")
                  /\ ret.data[i].colorAttribute = cell("Color")
                  /\ ret.data[i].symbolAttribute = cell("Symbol")
                  /\ ret.data[i].dateDisplay = formatDate(cell("Date"))
                  /\ ret.data[i].eventDisplay = formatStringDisplay(cell("Event"))

\* A call on a table with all five roles and two rows that differ.
RecordPerRowInOrderWitness ==
    /\ called
    /\ Unresolved(arg.columns) = {}
    /\ Len(arg.rows) = 2
    /\ arg.rows[1] # arg.rows[2]
    /\ Len(ret.data) = 2
    /\ ret.data[1] # ret.data[2]

\* C2: transformData on a table with at least one row and a role no column
\* carries does not fail, and returns one Record per row with the empty
\* string in the field of each such role, black for an unresolved Color and
\* "circle" for an unresolved Symbol.
MissingRoleDefaults ==
    (called /\ Len(arg.rows) >= 1 /\ Unresolved(arg.columns) # {}) =>
        /\ ~ret.threw
        /\ Len(ret.data) = Len(arg.rows)
        /\ \A i \in 1..Len(ret.data) :
              /\ "Date" \in Unresolved(arg.columns) => ret.data[i].date = ""
              /\ "Event" \in Unresolved(arg.columns) => ret.data[i].event = ""
              /\ "Description" \in Unresolved(arg.columns) => ret.data[i].description = ""
              /\ "Color" \in Unresolved(arg.columns) =>
                    ret.data[i].colorAttribute = "" /\ ret.data[i].color = "#000000"
              /\ "Symbol" \in Unresolved(arg.columns) =>
                    ret.data[i].symbolAttribute = "" /\ ret.data[i].symbol = "circle"

\* The values of the circle of marker m that the transitions animate.
Animated(m) ==
    [r |-> m.circle.r, stroke |-> m.circle.stroke, strokeWidth |-> m.circle.strokeWidth]

\* The indices of the Records of records with the date date, in order.
RecordsOfDate(records, date) ==
    LET HasDate(i) == records[i].date = date
    IN  SelectSeq([i \in 1..Len(records) |-> i], HasDate)

\* The step is a call of update with the arguments the next state records.
UpdateStep == Update(options'.table, options'.viewport)

\* C3: a marker is drawn resting (radius 5, stroke black of width 2) with the
\* tooltip hidden; mouseover on it starts the transition to radius 8, stroke
\* red of width 3 and shows the tooltip with the display date, the display
\* event and the description of every Record of the marker's date, in order;
\* mouseout starts the transition back to the resting values and hides the
\* tooltip; a transition ends with the circle at the values it was started
\* for; mousemove sets the tooltip 15 right of and 15 below the pointer and
\* changes nothing else.
MarkerStateMachine ==
    [][ /\ (UpdateStep /\ outcome' = "returned") =>
              /\ target'[2].style.visibility = "hidden"
              /\ \A k \in 1..Len(target'[1].children) :
                    target'[1].children[k].tag = "g" =>
                        /\ Animated(target'[1].children[k])
                              = [r |-> 5, stroke |-> "#000", strokeWidth |-> 2]
                        /\ target'[1].children[k].goal = Animated(target'[1].children[k])
        /\ \A k \in MarkerIndices :
              /\ MouseOver(k) =>
                    /\ target'[1].children[k].goal
                          = [r |-> 8, stroke |-> "red", strokeWidth |-> 3]
                    /\ Animated(target'[1].children[k]) = Animated(target[1].children[k])
                    /\ target'[2].style.visibility = "visible"
                    /\ target'[2].html =
                          TooltipHtml(data, RecordsOfDate(data, target[1].children[k].date))
              /\ MouseOut(k) =>
                    /\ target'[1].children[k].goal
                          = [r |-> 5, stroke |-> "#000", strokeWidth |-> 2]
                    /\ Animated(target'[1].children[k]) = Animated(target[1].children[k])
                    /\ target'[2].style.visibility = "hidden"
              /\ TransitionEnd(k) =>
                    /\ Animated(target'[1].children[k]) = target[1].children[k].goal
                    /\ target'[2] = target[2]
              /\ \A p \in PagePoints :
                    MouseMove(k, p) =>
                        /\ target'[1] = target[1]
                        /\ target'[2].style.left = ToString(p.pageX + 15) \o "px"
                        /\ target'[2].style.top = ToString(p.pageY + 15) \o "px"
                        /\ target'[2].html = target[2].html
                        /\ target'[2].style.visibility = target[2].style.visibility
              /\ \A j \in MarkerIndices \ {k} :
                    (MouseOver(k) \/ MouseOut(k) \/ TransitionEnd(k)) =>
                        target'[1].children[j] = target[1].children[j]
      ]_vars

\* A marker of two Records that has reached the hovered values, with the
\* tooltip showing and placed by a mousemove.
MarkerStateMachineWitness ==
    \E k \in MarkerIndices :
        /\ Animated(target[1].children[k]) = [r |-> 8, stroke |-> "red", strokeWidth |-> 3]
        /\ Len(target[1].children[k].events) = 2
        /\ target[2].style.visibility = "visible"
        /\ target[2].html = TooltipHtml(data, target[1].children[k].events)
        /\ target[2].style.top = "35px"

\* The set of the dates of the Records.
Dates(records) == {records[i].date : i \in 1..Len(records)}

\* The target holds one svg element of the size of viewport with one
\* baseline, one hidden tooltip, and one resting marker per date of records,
\* and nothing else.
OnlyTheDrawingOf(t, records, viewport) ==
    /\ Len(t) = 2
    /\ t[1].tag = "svg" /\ t[1].width = viewport.width /\ t[1].height = viewport.height
    /\ t[2].tag = "div" /\ t[2].style.visibility = "hidden" /\ t[2].html = ""
    /\ Cardinality({k \in 1..Len(t[1].children) : t[1].children[k].tag = "line"}) = 1
    /\ Len(t[1].children) = 1 + Cardinality(Dates(records))
    /\ \A d \in Dates(records) :
          Cardinality({k \in 1..Len(t[1].children) :
                          /\ t[1].children[k].tag = "g"
                          /\ t[1].children[k].date = d
                          /\ Animated(t[1].children[k]) = Resting
                          /\ t[1].children[k].goal = Resting}) = 1

\* C4: after an update that returns, whatever was drawn and hovered before,
\* the target holds only what this update drew: one svg element of the size
\* of its viewport with one baseline, one hidden tooltip, and one resting
\* marker per distinct date of the Records of its table.
UpdateRedrawsFromScratch ==
    [][ (UpdateStep /\ outcome' = "returned") =>
            /\ Len(data') = Len(options'.table.rows)
            /\ OnlyTheDrawingOf(target', data', options'.viewport) ]_vars

\* The drawing of an update of one Record, made after an update that had put
\* a second label in the scales.
UpdateRedrawsFromScratchWitness ==
    /\ outcome = "returned"
    /\ Len(data) = 1
    /\ Len(colorScale) = 2
    /\ OnlyTheDrawingOf(target, data, options.viewport)

\* C5: the markers drawn are as many as the distinct dates of the Records,
\* and every Record is in the group of exactly one marker, the marker of its
\* date.
OneMarkerPerDate ==
    target # <<>> =>
        /\ Cardinality(MarkerIndices) = Cardinality(Dates(data))
        /\ \A i \in 1..Len(data) :
              /\ Cardinality({k \in MarkerIndices :
                     \E n \in 1..Len(target[1].children[k].events) :
                         target[1].children[k].events[n] = i}) = 1
              /\ \A k \in MarkerIndices :
                    (\E n \in 1..Len(target[1].children[k].events) :
                         target[1].children[k].events[n] = i)
                    => target[1].children[k].date = data[i].date

\* Two Records of one date under one marker.
OneMarkerPerDateWitness ==
    /\ Len(data) = 2
    /\ data[1].date = data[2].date
    /\ Cardinality(MarkerIndices) = 1
    /\ \E k \in MarkerIndices : target[1].children[k].events = <<1, 2>>

\* C6: an update with a table of no rows returns, and leaves a drawing with
\* the baseline from x = 50 to x = width - 50 at y = height / 2 and without
\* markers.
EmptyTableDrawsBaselineOnly ==
    (outcome # "none" /\ options.table.rows = <<>>) =>
        /\ outcome = "returned"
        /\ data = <<>>
        /\ Len(target) = 2
        /\ target[1].children =
              <<[tag |-> "line", x1 |-> 50, x2 |-> options.viewport.width - 50,
                 y1 |-> Frac(options.viewport.height, 2),
                 y2 |-> Frac(options.viewport.height, 2),
                 stroke |-> "#000", strokeWidth |-> 2]>>
        /\ MarkerIndices = {}

\* An update with no rows and without the Symbol role, after updates that
\* drew Records.
EmptyTableDrawsBaselineOnlyWitness ==
    /\ outcome = "returned"
    /\ options.table.rows = <<>>
    /\ options.table.columns = NoSymbol
    /\ colorScale # <<>>
    /\ MarkerIndices = {}

\* C7: within a session a colour label has one colour: all the Records made
\* so far that carry the same colour label carry the same colour.
ColorStablePerLabel ==
    /\ \A p \in colorLog, q \in colorLog : p[1] = q[1] => p[2] = q[2]
    /\ \A i \in 1..Len(data) : <<data[i].colorAttribute, data[i].color>> \in colorLog

\* A label looked up in an earlier update and twice in the latest one.
ColorStablePerLabelWitness ==
    /\ Len(data) = 2
    /\ data[1].colorAttribute = data[2].colorAttribute
    /\ Len(colorScale) = 2
    /\ colorScale[2] = data[1].colorAttribute

\* C8: after an update in which transformData has thrown, nothing of the
\* drawing of the update before is left under the target.
FailedUpdateLeavesTargetCleared ==
    outcome = "threw" => target = <<>>

\* C9 as stated: formatStringDisplay(s) is s up to 10 characters and else
\* the first 7 characters and "...", never longer than 10 characters, and
\* "HelloWorldExample" displays as "HelloWor...".
TruncationAsStated ==
    called =>
        /\ Len(arg) <= 10 => ret = arg
        /\ Len(arg) > 10 => ret = SubSeq(arg, 1, 7) \o "..."
        /\ Len(ret) <= 10
        /\ arg = "HelloWorldExample" => ret = "HelloWor..."
        /\ arg = "Short" => ret = "Short"

\* C9, amended: formatStringDisplay(s) is s up to 10 characters and else
\* the first 7 characters of s and "...", 10 characters in all; so
\* "HelloWorldExample" displays as "HelloWo..." and "Short" as "Short".
TruncationToTen ==
    called =>
        /\ Len(arg) <= 10 => ret = arg
        /\ Len(arg) > 10 =>
              /\ Len(ret) = 10
              /\ SubSeq(ret, 1, 7) = SubSeq(arg, 1, 7)
              /\ SubSeq(ret, 8, 10) = "..."
        /\ Len(ret) <= 10
        /\ arg = "HelloWorldExample" => ret = "HelloWo..."
        /\ arg = "Short" => ret = "Short"

\* The call on the string of the example.
TruncationToTenWitness ==
    /\ called
    /\ arg = "HelloWorldExample"
    /\ ret = "HelloWo..."

\* C10: the column scan gives each role the index of the last column that
\* carries it, and null exactly when no column carries it; a column with
\* several roles is the column of each role it is the last to carry.
LastColumnWins ==
    called =>
        \A r \in Roles :
            /\ ret[r] = null <=> r \in Unresolved(arg)
            /\ r \notin Unresolved(arg) => ret[r] = LastColumn(arg, r)

\* A scan of two columns that share a role, the second with two roles, and
\* with a role on neither.
LastColumnWinsWitness ==
    /\ called
    /\ Len(arg) = 2
    /\ arg[1] \cap arg[2] # {}
    /\ Cardinality(arg[2]) >= 2
    /\ Unresolved(arg) # {}
    /\ \A r \in arg[2] : ret[r] = 1

====
